---- MODULE Spec2Model ----
(***************************************************************************)
(* Model of remove_auth.py: main() walks a list of TypeScript files and    *)
(* remove_auth_from_file() rewrites each one with a fixed sequence of      *)
(* regular-expression substitutions.                                       *)
(*                                                                         *)
(* A file's text is a sequence of lexical tokens.  Each token stands for   *)
(* one maximal piece of text that the regular expressions of the script    *)
(* treat as a unit:                                                        *)
(*   "IA"  import { requireAuth } from '@/lib/auth/simple-auth';           *)
(*   "ID"  import { requireAdmin } from '@/lib/auth/simple-auth';          *)
(*   "IAD" import { requireAuth, requireAdmin } from '...';                *)
(*   "IDA" import { requireAdmin, requireAuth } from '...';                *)
(*   "FN"  export async function NAME(...) {                               *)
(*   "CA"  const auth = requireAuth(...);                                  *)
(*   "CD"  const auth = requireAdmin(...);                                 *)
(*   "IF"  if (!auth.isValid) { return auth.response!; }                   *)
(*   "SP"  one whitespace character other than a newline                   *)
(*   "NL"  one newline character                                           *)
(*   "X"   any other non-blank text (a statement, a closing brace, ...)    *)
(* The whitespace the patterns allow inside a token (\s* between its       *)
(* words) is part of the token; the whitespace between tokens is explicit. *)
(***************************************************************************)
EXTENDS Integers, Sequences, FiniteSets, TLC

VARIABLES ts_files, disk, pc, idx, modified_count, out, calls

vars == <<ts_files, disk, pc, idx, modified_count, out, calls>>

(* ---------------------------- bounds ---------------------------------- *)
MaxLen == 3
MaxWs == 2
MaxStmts == 2
MaxFiles == 2
MaxSmallLen == 2

(* ---------------------------- texts ----------------------------------- *)
Tok == {"IA", "ID", "IAD", "IDA", "FN", "CA", "CD", "IF", "SP", "NL", "X"}

SmallTok == {"IA", "X"}

SeqsUpTo(S, n) == UNION {[1..k -> S] : k \in 0..n}

IsSpace(t) == t \in {"SP", "NL"}

\* the position of the first token at or after i that \s does not match
SkipSpace(s, i) ==
  CHOOSE j \in i..(Len(s) + 1) :
    /\ (j = Len(s) + 1 \/ ~IsSpace(s[j]))
    /\ \A k \in i..(j - 1) : IsSpace(s[k])

(* ------------------------ import removal ------------------------------ *)
auth_imports == <<"IA", "ID", "IAD", "IDA">>

\* re.sub(pattern, '', s) from position i: the statement, then ;\s*\n?
RECURSIVE sub_import(_, _, _)
sub_import(pattern, s, i) ==
  IF i > Len(s) THEN <<>>
  ELSE IF s[i] = pattern
       THEN sub_import(pattern, s, SkipSpace(s, i + 1))
       ELSE <<s[i]>> \o sub_import(pattern, s, i + 1)

RECURSIVE remove_imports_from(_, _)
remove_imports_from(s, p) ==
  IF p > Len(auth_imports) THEN s
  ELSE remove_imports_from(sub_import(auth_imports[p], s, 1), p + 1)

RemoveImports(s) == remove_imports_from(s, 1)

(* ------------------------ guard removal ------------------------------- *)
auth_check_patterns == <<"CA", "CD">>

\* the match when the pattern lets other statements stand between the brace
\* and the guard
GuardMatchEndAnywhere(call, s, i) ==
  IF s[i] # "FN" THEN 0
  ELSE LET hits == {j \in (i + 1)..Len(s) :
                      /\ s[j] = call
                      /\ SkipSpace(s, j + 1) <= Len(s)
                      /\ s[SkipSpace(s, j + 1)] = "IF"
                      /\ \A k \in (i + 1)..(j - 1) : s[k] # "FN"}
       IN IF hits = {} THEN 0
          ELSE SkipSpace(s, (CHOOSE j \in hits : \A h \in hits : j <= h) + 1)

\* a match of (FN\s*)\s* call \s* IF starting at i: the position of its
\* last token, or 0 when the pattern does not match at i
GuardMatchEnd(call, s, i) ==
  IF s[i] # "FN" THEN 0
  ELSE LET j == SkipSpace(s, i + 1)
       IN IF j > Len(s) \/ s[j] # call THEN 0
          ELSE LET k == SkipSpace(s, j + 1)
               IN IF k > Len(s) \/ s[k] # "IF" THEN 0 ELSE k

\* re.sub(pattern, r'\1', s) from position i; group 1 is the declaration
\* and all the whitespace after its brace
RECURSIVE sub_guard(_, _, _)
sub_guard(call, s, i) ==
  IF i > Len(s) THEN <<>>
  ELSE LET k == GuardMatchEnd(call, s, i)
       IN IF k # 0
          THEN SubSeq(s, i, SkipSpace(s, i + 1) - 1) \o sub_guard(call, s, k + 1)
          ELSE <<s[i]>> \o sub_guard(call, s, i + 1)

RECURSIVE remove_guards_from(_, _)
remove_guards_from(s, p) ==
  IF p > Len(auth_check_patterns) THEN s
  ELSE remove_guards_from(sub_guard(auth_check_patterns[p], s, 1), p + 1)

RemoveGuards(s) == remove_guards_from(s, 1)

(* ------------------------ whitespace cleanup -------------------------- *)
NewlinesIn(s, a, b) == Cardinality({p \in a..b : s[p] = "NL"})

LastNewline(s, a, b) ==
  CHOOSE p \in a..b : s[p] = "NL" /\ \A q \in (p + 1)..b : s[q] # "NL"

\* the cleanup with the pattern \n\s*\n, which leaves no blank line
RECURSIVE clean_from_two_newlines(_, _)
clean_from_two_newlines(s, i) ==
  IF i > Len(s) THEN <<>>
  ELSE LET e == SkipSpace(s, i) - 1
       IN IF s[i] = "NL" /\ NewlinesIn(s, i, e) >= 2
          THEN <<"NL">> \o clean_from_two_newlines(s, LastNewline(s, i, e) + 1)
          ELSE <<s[i]>> \o clean_from_two_newlines(s, i + 1)

\* re.sub(r'\n\s*\n\s*\n', '\n\n', s) from position i
RECURSIVE clean_from(_, _)
clean_from(s, i) ==
  IF i > Len(s) THEN <<>>
  ELSE LET e == SkipSpace(s, i) - 1
       IN IF s[i] = "NL" /\ NewlinesIn(s, i, e) >= 3
          THEN <<"NL", "NL">> \o clean_from(s, LastNewline(s, i, e) + 1)
          ELSE <<s[i]>> \o clean_from(s, i + 1)

CleanWhitespace(s) == clean_from(s, 1)

Transform(s) == CleanWhitespace(RemoveGuards(RemoveImports(s)))

(* ------------------------ files and I/O ------------------------------- *)
\* what the operating system does to the open/read/write calls of one
\* call of remove_auth_from_file: the read succeeds or raises; the write
\* succeeds, raises in open(file_path, 'w') before the file is touched, or
\* raises after open() has truncated the file and n tokens have reached it
Io(read, write, n) == [read |-> read, write |-> write, n |-> n]

IoOutcomes(on_disk) ==
  {Io("fail", "ok", 0), Io("ok", "ok", 0), Io("ok", "open_fail", 0)}
    \cup {Io("ok", "write_fail", n) : n \in 0..(Len(on_disk) - 1)}

\* The result of one call: the locals of the function (original_content,
\* the content after each group of substitutions), whether the file was
\* opened for writing, the content it leaves on disk, the line it printed,
\* the value it returned, the exception its `except` clause caught, and
\* whether an exception left the function (raised).
\* Failed is what a call leaves behind when the read raised.
Failed(on_disk) ==
  [read_ok |-> FALSE, original_content |-> <<>>, after_imports |-> <<>>,
   after_guards |-> <<>>, content |-> <<>>, opened_w |-> FALSE,
   disk |-> on_disk, printed |-> "error", ret |-> FALSE, error |-> "read",
   raised |-> FALSE]

\* remove_auth_from_file without its `except Exception` clause
remove_auth_from_file_nocatch(on_disk, io) ==
  IF io.read = "fail"
  THEN [Failed(on_disk) EXCEPT !.printed = "none", !.raised = TRUE]
  ELSE LET content == Transform(on_disk)
           r == [Failed(on_disk) EXCEPT !.read_ok = TRUE,
                   !.original_content = on_disk,
                   !.after_imports = RemoveImports(on_disk),
                   !.after_guards = RemoveGuards(RemoveImports(on_disk)),
                   !.content = content]
       IN IF content # on_disk
          THEN IF io.write = "ok"
               THEN [r EXCEPT !.opened_w = TRUE, !.disk = content,
                                !.printed = "ok", !.ret = TRUE,
                                !.error = "none"]
               ELSE [r EXCEPT !.printed = "none", !.error = "write",
                                !.raised = TRUE]
          ELSE [r EXCEPT !.printed = "none", !.error = "none"]

\* remove_auth_from_file without its `if content != original_content`
remove_auth_from_file_always_write(on_disk, io) ==
  IF io.read = "fail" THEN Failed(on_disk)
  ELSE LET content == Transform(on_disk)
           r == [Failed(on_disk) EXCEPT !.read_ok = TRUE,
                   !.original_content = on_disk,
                   !.after_imports = RemoveImports(on_disk),
                   !.after_guards = RemoveGuards(RemoveImports(on_disk)),
                   !.content = content]
       IN IF io.write = "ok"
          THEN [r EXCEPT !.opened_w = TRUE, !.disk = content,
                           !.printed = "ok", !.ret = TRUE, !.error = "none"]
          ELSE [r EXCEPT !.error = "write"]

remove_auth_from_file(on_disk, io) ==
  IF io.read = "fail" THEN Failed(on_disk)
  ELSE LET original_content == on_disk
           after_imports == RemoveImports(original_content)
           after_guards == RemoveGuards(after_imports)
           content == CleanWhitespace(after_guards)
           r == [Failed(on_disk) EXCEPT !.read_ok = TRUE,
                   !.original_content = original_content,
                   !.after_imports = after_imports,
                   !.after_guards = after_guards,
                   !.content = content]
       IN IF content # original_content
          THEN CASE io.write = "ok" ->
                      [r EXCEPT !.opened_w = TRUE, !.disk = content,
                                !.printed = "ok", !.ret = TRUE,
                                !.error = "none"]
                 [] io.write = "write_fail" /\ io.n < Len(content) ->
                      [r EXCEPT !.opened_w = TRUE, !.error = "write",
                                !.disk = SubSeq(content, 1, io.n)]
                 [] OTHER -> [r EXCEPT !.error = "write"]
          ELSE [r EXCEPT !.printed = "none", !.error = "none"]

(* ------------------------------ main ---------------------------------- *)
Line(kind, arg) == [kind |-> kind, arg |-> arg]

\* glob.glob(...) and the "Found N TypeScript files" line
Start ==
  /\ pc = "start"
  /\ out' = Append(out, Line("found", Len(ts_files)))
  /\ modified_count' = 0
  /\ idx' = 1
  /\ pc' = "loop"
  /\ UNCHANGED <<ts_files, disk, calls>>

\* one iteration of `for file_path in ts_files`
ProcessFile ==
  /\ pc = "loop"
  /\ idx <= Len(ts_files)
  /\ \E io \in IoOutcomes(disk[idx]) :
       LET r == remove_auth_from_file(disk[idx], io)
       IN /\ disk' = [disk EXCEPT ![idx] = r.disk]
          /\ calls' = Append(calls, [file |-> idx] @@ r)
          /\ out' = IF r.printed = "none" THEN out
                    ELSE Append(out, Line(r.printed, idx))
          /\ IF r.raised
             THEN /\ pc' = "aborted"
                  /\ UNCHANGED <<idx, modified_count>>
             ELSE /\ pc' = "loop"
                  /\ idx' = idx + 1
                  /\ modified_count' =
                       IF r.ret THEN modified_count + 1 ELSE modified_count
  /\ UNCHANGED ts_files

\* the "Modified N files" line after the loop
Finish ==
  /\ pc = "loop"
  /\ idx > Len(ts_files)
  /\ out' = Append(out, Line("summary", modified_count))
  /\ pc' = "done"
  /\ UNCHANGED <<ts_files, disk, idx, modified_count, calls>>

Next == Start \/ ProcessFile \/ Finish

InitWith(files) ==
  /\ ts_files = files
  /\ disk = files
  /\ pc = "start"
  /\ idx = 0
  /\ modified_count = 0
  /\ out = <<>>
  /\ calls = <<>>

\* a directory of up to MaxFiles short files
SmallContents == SeqsUpTo(SmallTok, MaxSmallLen)

Init == \E files \in SeqsUpTo(SmallContents, MaxFiles) : InitWith(files)

Spec == Init /\ [][Next]_vars

\* main() is a sequential program: it keeps taking its next step
FairSpec == Spec /\ WF_vars(Next)

\* a directory holding one file: every text of up to MaxLen tokens, every
\* module that begins with an import line, and every exported function of
\* up to MaxStmts leading statements followed by a body, each statement on
\* its own line behind the same indentation
Guard(call, w) == <<call>> \o w \o <<"IF">>

Stmts(w) ==
  {Guard("CA", w), Guard("CD", w), <<"IF">> \o w \o <<"CA">>,
   <<"IF">> \o w \o <<"CD">>, <<"X">>}

RECURSIVE Bodies(_, _)
Bodies(w, n) ==
  IF n = 0 THEN {<<>>}
  ELSE LET shorter == Bodies(w, n - 1)
       IN shorter \cup {b \o w \o st : b \in shorter, st \in Stmts(w)}

Functions ==
  UNION {{<<"FN">> \o b \o w \o <<"X", "NL", "X">> : b \in Bodies(w, MaxStmts)} :
           w \in SeqsUpTo({"SP", "NL"}, MaxWs)}

\* an import statement on a line of its own, at the top of the file or
\* behind a first line, with blank lines or indentation before the code
\* that follows
Modules ==
  {h \o <<i, "NL">> \o w \o <<"X", "NL">> :
     h \in {<<>>, <<"X", "NL">>}, i \in {"IA", "ID", "IAD", "IDA"},
     w \in SeqsUpTo({"SP", "NL"}, MaxWs)}

InitOneFile ==
  \E text \in SeqsUpTo(Tok, MaxLen) \cup Functions \cup Modules :
    InitWith(<<text>>)

SpecOneFile == InitOneFile /\ [][Next]_vars

(* ======================= properties =================================== *)
Processed == 1..Len(calls)

Range(s) == {s[p] : p \in 1..Len(s)}

AllSpace(s, a, b) == \A p \in a..b : IsSpace(s[p])

\* the tokens of s at the positions outside D, in order
RECURSIVE Without(_, _, _)
Without(s, D, i) ==
  IF i > Len(s) THEN <<>>
  ELSE (IF i \in D THEN <<>> ELSE <<s[i]>>) \o Without(s, D, i + 1)

(* ------------------------------ C1 ------------------------------------ *)
C1Inv ==
  /\ pc # "aborted"
  /\ Len(calls) = (IF pc = "start" THEN 0 ELSE idx - 1)
  /\ \A k \in Processed : calls[k].file = k
  /\ \A k \in Processed :
       calls[k].error # "none" =>
         /\ ~calls[k].ret
         /\ \E l \in 1..Len(out) : out[l] = Line("error", k)
  /\ pc = "done" =>
       /\ Len(calls) = Len(ts_files)
       /\ out[Len(out)] = Line("summary", modified_count)

\* C1: whichever files fail on read or on write, the failure is caught in
\* remove_auth_from_file, prints a diagnostic and yields False; every file
\* is processed exactly once, in list order, and the run always reaches the
\* "Modified N files" summary.
C1_FailureNeverAborts == [](C1Inv) /\ <>(pc = "done")

C1_Witness ==
  /\ pc = "done"
  /\ Len(calls) >= 2
  /\ calls[1].error = "read"
  /\ \E k \in 2..Len(calls) : calls[k].error = "write"

(* ------------------------------ C2 ------------------------------------ *)
\* C2: after remove_auth_from_file has returned for a file, the file holds
\* either its original content or the complete transformed content, also
\* when opening for write or writing failed part-way.
C2_WriteAllOrNothing ==
  \A k \in Processed : disk[k] \in {ts_files[k], Transform(ts_files[k])}

(* ------------------------------ C3 ------------------------------------ *)
IsImport(t) == t \in {"IA", "ID", "IAD", "IDA"}

HasGuardShape(s) ==
  \E i, j, k \in 1..Len(s) :
    /\ i < j /\ j < k
    /\ s[i] = "FN" /\ s[j] \in {"CA", "CD"} /\ s[k] = "IF"
    /\ AllSpace(s, i + 1, j - 1) /\ AllSpace(s, j + 1, k - 1)

NoPattern(s) == (\A p \in 1..Len(s) : ~IsImport(s[p])) /\ ~HasGuardShape(s)

\* three newlines with nothing but whitespace between them
HasThreeNewlines(s) ==
  \E a, b \in 1..Len(s) :
    a < b /\ s[a] = "NL" /\ AllSpace(s, a, b) /\ NewlinesIn(s, a, b) >= 3

\* C3 as stated: a file in which no import shape and no guard-block shape
\* occurs is left as it was, is not written and is reported unmodified.
C3_Original ==
  \A k \in Processed :
    NoPattern(ts_files[k]) =>
      disk[k] = ts_files[k] /\ ~calls[k].opened_w /\ ~calls[k].ret

\* C3 amended: ... and in which no three newlines stand with only
\* whitespace between them ...
C3_NoPatternUnchanged ==
  \A k \in Processed :
    (NoPattern(ts_files[k]) /\ ~HasThreeNewlines(ts_files[k])) =>
      /\ disk[k] = ts_files[k]
      /\ ~calls[k].opened_w
      /\ ~calls[k].ret
      /\ calls[k].read_ok => calls[k].content = ts_files[k]

C3_Witness ==
  \E k \in Processed :
    /\ calls[k].read_ok
    /\ NoPattern(ts_files[k]) /\ ~HasThreeNewlines(ts_files[k])
    /\ \E p \in 1..(Len(ts_files[k]) - 1) :
         ts_files[k][p] = "NL" /\ ts_files[k][p + 1] = "NL"
    /\ "X" \in Range(ts_files[k])

(* ------------------------------ C4 ------------------------------------ *)
\* C4: applying the whole sequence of substitutions to the output of a run
\* changes nothing, so a second run on the same file returns False.
C4_Idempotent ==
  \A k \in Processed :
    calls[k].read_ok => Transform(calls[k].content) = calls[k].content

(* ------------------------------ C5 ------------------------------------ *)
\* the text after a leading guard block of s, or <<>> when s is not an
\* exported function that begins with a guard block
AfterLeadingGuard(s) ==
  IF Len(s) = 0 \/ s[1] # "FN" THEN <<>>
  ELSE LET j == SkipSpace(s, 2)
       IN IF j > Len(s) \/ s[j] \notin {"CA", "CD"} THEN <<>>
          ELSE LET k == SkipSpace(s, j + 1)
               IN IF k > Len(s) \/ s[k] # "IF" THEN <<>>
                  ELSE SubSeq(s, k + 1, Len(s))

\* C5: for an exported function whose body begins with the guard idiom on
\* a line of its own, followed by further statements, the output is the declaration up to its
\* brace followed directly by what followed the guard, with no extra line
\* between, and the file is reported as modified.
C5_GuardRemovedCleanly ==
  \A k \in Processed :
    LET s == ts_files[k]
        rest == AfterLeadingGuard(s)
    IN (/\ calls[k].read_ok
        /\ "X" \in Range(rest)
        /\ Range(rest) \subseteq {"X", "SP", "NL"}
        /\ s[2] = "NL" /\ rest[1] = "NL") =>
         /\ calls[k].content = CleanWhitespace(<<"FN">> \o rest)
         /\ calls[k].error = "none" => calls[k].ret

(* ------------------------------ C6 ------------------------------------ *)
\* two consecutive lines, each ended by a newline and holding nothing but
\* whitespace
HasTwoBlankLines(s) ==
  \E a, b \in 1..Len(s) :
    /\ a < b
    /\ (a = 1 \/ s[a - 1] = "NL")
    /\ s[b] = "NL"
    /\ AllSpace(s, a, b)
    /\ NewlinesIn(s, a, b) >= 2

\* C6: the output of remove_auth_from_file never contains two consecutive
\* blank lines, wherever the run of blank lines lay in the input.
C6_NoTwoBlankLines ==
  \A k \in Processed :
    calls[k].read_ok => ~HasTwoBlankLines(calls[k].content)

(* ------------------------------ C7 ------------------------------------ *)
\* C7: at the end of main() the reported count is the number of files
\* whose content on disk differs from their content before the run, and is
\* at most the number of files found.
C7_CountIsFilesChanged ==
  pc = "done" =>
    /\ modified_count =
         Cardinality({k \in 1..Len(ts_files) : disk[k] # ts_files[k]})
    /\ modified_count <= Len(ts_files)

(* ------------------------------ C8 ------------------------------------ *)
ImportLines(s) ==
  {p \in 1..Len(s) :
     /\ IsImport(s[p])
     /\ (p = 1 \/ s[p - 1] = "NL")
     /\ p < Len(s) /\ s[p + 1] = "NL"}

\* C8: when every import statement of the file is a line of its own and
\* code follows, the import removal deletes exactly those lines with their
\* newlines and keeps what follows as it was; the file is reported modified.
C8_ImportLinesRemoved ==
  \A k \in Processed :
    LET s == ts_files[k]
        L == ImportLines(s)
    IN (/\ calls[k].read_ok
        /\ L # {}
        /\ \A p \in 1..Len(s) : IsImport(s[p]) => p \in L
        /\ \E p \in L, q \in 1..Len(s) : p < q /\ ~IsSpace(s[q])) =>
         /\ calls[k].after_imports =
              Without(s, L \cup {p + 1 : p \in L}, 1)
         /\ calls[k].error = "none" => calls[k].ret

(* ------------------------------ C9 ------------------------------------ *)
CallStep == pc = "loop" /\ idx <= Len(ts_files)

IsGuardStart(s, j) ==
  /\ s[j] \in {"CA", "CD"}
  /\ SkipSpace(s, j + 1) <= Len(s)
  /\ s[SkipSpace(s, j + 1)] = "IF"

GuardTokens(s, j) == j..SkipSpace(s, j + 1)

\* ... those that are the first thing after the brace of a declaration ...
IsLeading(s, j) ==
  IsGuardStart(s, j) /\ \E i \in 1..(j - 1) : s[i] = "FN" /\ AllSpace(s, i + 1, j - 1)

\* ... and the requireAdmin blocks that directly follow a leading
\* requireAuth block
FollowsLeadingAuth(s, j) ==
  /\ IsGuardStart(s, j) /\ s[j] = "CD"
  /\ \E i \in 1..(j - 1) :
       /\ IsLeading(s, i) /\ s[i] = "CA"
       /\ SkipSpace(s, i + 1) < j
       /\ AllSpace(s, SkipSpace(s, i + 1) + 1, j - 1)

LeadingGuardTokens(s) ==
  UNION {GuardTokens(s, j) : j \in {p \in 1..Len(s) : IsLeading(s, p)}}

ExposedGuardTokens(s) ==
  UNION {GuardTokens(s, j) : j \in {p \in 1..Len(s) : FollowsLeadingAuth(s, p)}}

\* C10 as stated: the guard-removal step removes the guard blocks that are
\* the first thing after the brace of an exported async function and leaves
\* every other guard block (one behind another statement, or with its two
\* statements in the other order) untouched.
C10_Original ==
  \A k \in Processed :
    calls[k].read_ok =>
      calls[k].after_guards =
        Without(calls[k].after_imports,
                LeadingGuardTokens(calls[k].after_imports), 1)

\* C10 amended: ... except that a requireAdmin guard block directly behind
\* a leading requireAuth guard block is removed with it ...
C10_OnlyLeadingGuardRemoved ==
  \A k \in Processed :
    calls[k].read_ok =>
      calls[k].after_guards =
        Without(calls[k].after_imports,
                LeadingGuardTokens(calls[k].after_imports)
                  \cup ExposedGuardTokens(calls[k].after_imports), 1)

C10_Witness ==
  \E k \in Processed :
    LET s == calls[k].after_imports
    IN /\ calls[k].read_ok
       /\ s # <<>> /\ s[1] = "FN"
       /\ \A p \in 2..Len(s) : s[p] # "FN"
       /\ \E j \in 1..Len(s) :
            /\ IsGuardStart(s, j)
            /\ \E x \in 2..(j - 1) : s[x] = "X"
            /\ \A x \in 2..(j - 1) : s[x] \in {"X", "SP", "NL"}
       /\ calls[k].after_guards = s

====
